---------------------------- MODULE Spec2Model ----------------------------
(***************************************************************************)
(* Package status workflow of the 818-log logistics tracker.               *)
(*                                                                         *)
(*  - the status taxonomy (types.ts: PackageStatus, UserRole);             *)
(*  - the role-transition policy of the scan page                          *)
(*    (ScanQR.tsx: getAvailableNextStatuses);                              *)
(*  - the data service over the Firestore collections packages, orders    *)
(*    and tracking_events (dataService.ts: createOrder, deleteOrder,       *)
(*    updateOrder, updatePackageStatus,                                    *)
(*    updatePackageInternalTrackingCode), each awaited Firestore call      *)
(*    being one atomic step of the calling operation.                      *)
(***************************************************************************)
EXTENDS Integers, Sequences, FiniteSets, TLC

(***************************************************************************)
(* Status taxonomy                                                         *)
(***************************************************************************)

\* Object.values(PackageStatus): the enum in declaration order.
PackageStatus ==
    << "PURCHASED_FROM_SELLER", "IN_TRANSIT_TO_CHINA_AGENT", "RECEIVED_IN_CHINA",
       "QC_CHECKED", "PACKED_CHINA", "READY_TO_SHIP_UAE", "SHIPPED_TO_UAE",
       "ARRIVED_UAE", "REPACKING", "READY_TO_SHIP_IRAN", "SHIPPED_TO_IRAN",
       "ARRIVED_IRAN", "OUT_FOR_DELIVERY", "DELIVERED",
       "ISSUE_REPORTED" >>

UserRole == {"ADMIN", "CHINA_AGENT", "UAE_AGENT", "IRAN_AGENT", "CUSTOMER"}

\* A missing value: `user` before login (null), a package without currentStatus.
Null == "null"

Range(s) == {s[i] : i \in 1..Len(s)}

\* Array.prototype.indexOf: the 0-based index of the first occurrence, or -1.
RECURSIVE indexOfFrom(_, _, _)
indexOfFrom(seq, x, i) ==
    IF i > Len(seq) THEN -1
    ELSE IF seq[i] = x THEN i - 1
    ELSE indexOfFrom(seq, x, i + 1)

indexOf(seq, x) == indexOfFrom(seq, x, 1)

\* Array.prototype.slice(start) for 0 <= start: the elements from the 0-based
\* index start to the end.
slice(seq, start) == SubSeq(seq, start + 1, Len(seq))

(***************************************************************************)
(* Role-transition policy (ScanQR.tsx)                                     *)
(***************************************************************************)

chinaStatuses ==
    << "PURCHASED_FROM_SELLER", "IN_TRANSIT_TO_CHINA_AGENT", "RECEIVED_IN_CHINA",
       "QC_CHECKED", "PACKED_CHINA", "READY_TO_SHIP_UAE", "SHIPPED_TO_UAE" >>

\* A variant of uaeStatuses with a slip: the list starts after the status it
\* shares with the list of China.
uaeStatuses_noBoundary ==
    << "ARRIVED_UAE", "REPACKING", "READY_TO_SHIP_IRAN", "SHIPPED_TO_IRAN" >>

uaeStatuses ==
    << "SHIPPED_TO_UAE", "ARRIVED_UAE", "REPACKING", "READY_TO_SHIP_IRAN",
       "SHIPPED_TO_IRAN" >>

\* A variant of iranStatuses with a slip: the list starts after the status it
\* shares with the list of the UAE.
iranStatuses_noBoundary ==
    << "ARRIVED_IRAN", "OUT_FOR_DELIVERY", "DELIVERED" >>

iranStatuses ==
    << "SHIPPED_TO_IRAN", "ARRIVED_IRAN", "OUT_FOR_DELIVERY", "DELIVERED" >>

\* The if/else chain on user.role; any other role keeps the empty list.
allowedStatuses(role) ==
    IF role = "CHINA_AGENT" THEN chinaStatuses
    ELSE IF role = "UAE_AGENT" THEN uaeStatuses
    ELSE IF role = "IRAN_AGENT" THEN iranStatuses
    ELSE IF role = "ADMIN" THEN chinaStatuses \o uaeStatuses \o iranStatuses
    ELSE << >>

\* Variants of getAvailableNextStatuses with one slip each.
\* Only the immediate successor is offered.
getAvailableNextStatuses_onlyNext(usr, cur) ==
    IF usr = Null \/ cur = Null THEN << >>
    ELSE LET currIdx == indexOf(allowedStatuses(usr), cur)
         IN  IF currIdx = -1 THEN << >>
             ELSE SubSeq(allowedStatuses(usr), currIdx + 2, currIdx + 2)

\* Every role is given the administrator's list.
getAvailableNextStatuses_anyRegion(usr, cur) ==
    IF usr = Null \/ cur = Null THEN << >>
    ELSE LET currIdx == indexOf(allowedStatuses("ADMIN"), cur)
         IN  IF currIdx = -1 THEN << >>
             ELSE slice(allowedStatuses("ADMIN"), currIdx + 1)

\* The test for currIdx === -1 is missing.
getAvailableNextStatuses_noMissingTest(usr, cur) ==
    IF usr = Null \/ cur = Null THEN << >>
    ELSE slice(allowedStatuses(usr), indexOf(allowedStatuses(usr), cur) + 1)

\* The slice starts at the current status instead of after it.
getAvailableNextStatuses_fromCurrent(usr, cur) ==
    IF usr = Null \/ cur = Null THEN << >>
    ELSE LET currIdx == indexOf(allowedStatuses(usr), cur)
         IN  IF currIdx = -1 THEN << >>
             ELSE slice(allowedStatuses(usr), currIdx)

getAvailableNextStatuses(usr, cur) ==
    IF usr = Null \/ cur = Null THEN << >>
    ELSE IF Len(allowedStatuses(usr)) = 0 THEN << >>
    ELSE LET currIdx == indexOf(allowedStatuses(usr), cur)
         IN  IF currIdx = -1 THEN << >>
             ELSE slice(allowedStatuses(usr), currIdx + 1)

(***************************************************************************)
(* Bounds of the model                                                     *)
(***************************************************************************)

NumOrders == 2      \* order ids that createOrder may use
MaxItems == 2       \* line items (packages) of one order
MaxCalls == 3       \* data-service calls begun in one behaviour
MaxWeight == 1      \* weights an agent may enter: 1..MaxWeight
NumCallers == 2     \* clients calling the data service at the same time
MaxWalk == 14       \* status updates of the package followed through the scan page

OrderIds == 1..NumOrders
Callers == 1..NumCallers

\* The statuses passed to updatePackageStatus as newStatus.
RequestedStatuses ==
    {"RECEIVED_IN_CHINA", "DELIVERED", "ISSUE_REPORTED"}

\* additionalData built by handleConfirmStatusUpdate: weight 0 stands for an
\* object without the weight key, a positive weight for { weight }.
AdditionalData == {[weight |-> w] : w \in 0..MaxWeight}

(***************************************************************************)
(* Documents                                                               *)
(***************************************************************************)

\* The id handleCreateOrder gives the k-th package of order o (in the code a
\* random PKG-nnnnn; here one id per order and position).
PkgId(o, k) == (o - 1) * MaxItems + k

\* An id that is no package's: a mistyped or foreign code.
UnknownPkgId == 0

\* handleCreateOrder: the k-th package of a new order; no weight and no
\* internal tracking code is set.
NewPackage(o, k) ==
    [id |-> PkgId(o, k), orderId |-> o,
     currentStatus |-> "PURCHASED_FROM_SELLER", weight |-> 0,
     internalTrackingCode |-> Null]

\* The code typed in by handleUpdateInternalTrackingCode of OrderList.
TrackingCode == "TRK-1"

\* handleCreateOrder: the order document passed to createOrder.
NewOrder(o, n) ==
    [id |-> o,
     packages |-> [k \in 1..n |-> NewPackage(o, k)],
     status |-> "PURCHASED_FROM_SELLER"]

\* { ...doc, currentStatus: newStatus, ...additionalData }: also what
\* updateDoc(ref, { currentStatus: newStatus, ...additionalData }) leaves.
ApplyUpdate(doc, newStatus, additionalData) ==
    [doc EXCEPT !.currentStatus = newStatus,
                !.weight = IF additionalData.weight # 0
                           THEN additionalData.weight ELSE @]

\* A variant of MapPackages with a slip: the embedded copy gets the new status
\* but not additionalData.
MapPackages_statusOnly(pkgs, packageId, newStatus, additionalData) ==
    [i \in 1..Len(pkgs) |->
        IF pkgs[i].id = packageId
        THEN [pkgs[i] EXCEPT !.currentStatus = newStatus]
        ELSE pkgs[i]]

\* A variant of MapPackages with a slip: the test of the id is missing and
\* every embedded package gets the update.
MapPackages_everyEntry(pkgs, packageId, newStatus, additionalData) ==
    [i \in 1..Len(pkgs) |-> ApplyUpdate(pkgs[i], newStatus, additionalData)]

\* orderData.packages.map(p => p.id === packageId ? {...} : p)
MapPackages(pkgs, packageId, newStatus, additionalData) ==
    [i \in 1..Len(pkgs) |->
        IF pkgs[i].id = packageId
        THEN ApplyUpdate(pkgs[i], newStatus, additionalData)
        ELSE pkgs[i]]

\* The for loop over allStatuses: the running (minIndex, overallStatus) after
\* the first i statuses.
RECURSIVE MinStatusLoop(_, _, _)
MinStatusLoop(allStatuses, i, acc) ==
    IF i > Len(allStatuses) THEN acc
    ELSE LET status == allStatuses[i]
             idx == indexOf(PackageStatus, status)
         IN  IF status # Null /\ idx # -1 /\ idx < acc.minIndex
             THEN MinStatusLoop(allStatuses, i + 1,
                                [minIndex |-> idx, overallStatus |-> status])
             ELSE MinStatusLoop(allStatuses, i + 1, acc)

\* updatedPackages.map(p => p?.currentStatus).filter(Boolean)
AllStatuses(updatedPackages) ==
    SelectSeq([i \in 1..Len(updatedPackages) |-> updatedPackages[i].currentStatus],
              LAMBDA st : st # Null)

\* Variants of OverallStatus with one slip each.
\* The status just set is taken as the order's status.
OverallStatus_newStatus(updatedPackages, newStatus) == newStatus

\* The minimum is taken for every length, over the pipeline statuses only,
\* starting from the first status of the pipeline.
OverallStatus_pipelineOnly(updatedPackages, newStatus) ==
    MinStatusLoop(SelectSeq(AllStatuses(updatedPackages),
                            LAMBDA st : st # "ISSUE_REPORTED"), 1,
                  [minIndex |-> Len(PackageStatus),
                   overallStatus |-> PackageStatus[1]]).overallStatus

\* No status results when no package has a pipeline status.
OverallStatus_noneIfUnranked(updatedPackages, newStatus) ==
    IF Len(updatedPackages) > 1
    THEN IF \A i \in 1..Len(updatedPackages) :
                updatedPackages[i].currentStatus = "ISSUE_REPORTED"
         THEN Null
         ELSE MinStatusLoop(AllStatuses(updatedPackages), 1,
                            [minIndex |-> Len(PackageStatus),
                             overallStatus |-> newStatus]).overallStatus
    ELSE newStatus

\* "Determine the overall order status based on all packages".
OverallStatus(updatedPackages, newStatus) ==
    IF Len(updatedPackages) > 1 /\ Len(AllStatuses(updatedPackages)) > 0
    THEN MinStatusLoop(AllStatuses(updatedPackages), 1,
                       [minIndex |-> Len(PackageStatus),
                        overallStatus |-> newStatus]).overallStatus
    ELSE newStatus

(***************************************************************************)
(* State                                                                   *)
(***************************************************************************)

VARIABLES
    user,            \* ScanQR: role of the logged-in user, or Null
    scannedId,       \* ScanQR: scannedPackage.id, UnknownPkgId while none
    scannedStatus,   \* ScanQR: scannedPackage.currentStatus, or Null
    buttons,         \* ScanQR: the status buttons rendered, or Null before render
    selectedStatus,  \* ScanQR: the status picked with a button, or Null
    loading,         \* ScanQR: a handler of the page is awaiting the service
    packages,        \* collection 'packages': package id -> document
    orders,          \* collection 'orders': order id -> document
    tracking_events, \* collection 'tracking_events', in order of creation
    audit_logs,      \* collection 'audit_logs': the actions logged, in order
    calls,           \* caller -> the data-service call it has in progress
    createdOrders,   \* order ids handed out by handleCreateOrder so far
    callsBegun       \* data-service calls begun so far

scanVars == << user, scannedId, scannedStatus, buttons, selectedStatus,
              loading >>

storeVars == << packages, orders, tracking_events, audit_logs, calls,
                createdOrders, callsBegun >>

vars == << user, scannedId, scannedStatus, buttons, selectedStatus, loading,
          packages, orders, tracking_events, audit_logs, calls, createdOrders,
          callsBegun >>

\* A caller with no call in progress; the fields are the locals of the
\* methods, and writes, the writes updatePackageStatus has made so far in
\* this call, in their order.
Idle ==
    [op |-> "idle", pc |-> "idle", result |-> Null,
     packageId |-> 0, newStatus |-> Null, additionalData |-> [weight |-> 0],
     orderId |-> 0, order |-> << >>, currentPkg |-> << >>,
     orderData |-> << >>, updatedPackages |-> << >>, overallStatus |-> Null,
     writes |-> << >>]

\* A caller begins a call when its previous call, if any, has ended.
MayBegin(c) == calls[c].pc \in {"idle", "done"} /\ callsBegun < MaxCalls

\* The call of caller c moves on to its next await.
Goto(c, next) == [calls EXCEPT ![c].pc = next]

\* The call of caller c ends, resolved ("ok") or rejected with an error; its
\* parameters stay with the caller, its other locals are gone.
Finish(c, outcome) ==
    [calls EXCEPT ![c] =
        [Idle EXCEPT !.op = calls[c].op, !.pc = "done", !.result = outcome,
                     !.packageId = calls[c].packageId,
                     !.newStatus = calls[c].newStatus,
                     !.additionalData = calls[c].additionalData,
                     !.orderId = calls[c].orderId,
                     !.writes = calls[c].writes]]

\* A write of updatePackageStatus (its Firestore function and collection) is
\* acknowledged and the call moves on to its next await.
Written(c, write, next) ==
    [calls EXCEPT ![c].pc = next, ![c].writes = Append(@, write)]

\* The rejection of updateDoc for a document that does not exist.
NoDocument == "No document to update"

(***************************************************************************)
(* The scan page                                                           *)
(***************************************************************************)

ScanInit ==
    /\ user \in UserRole \cup {Null}
    /\ scannedId = UnknownPkgId
    /\ scannedStatus \in Range(PackageStatus) \cup {Null}
    /\ buttons = Null
    /\ selectedStatus = Null
    /\ loading = FALSE

\* The render of the update form: one button per available next status.
RenderButtons ==
    /\ buttons = Null
    /\ buttons' = IF scannedStatus # Null
                  THEN getAvailableNextStatuses(user, scannedStatus)
                  ELSE << >>
    /\ UNCHANGED << user, scannedId, scannedStatus, selectedStatus, loading,
                    storeVars >>

\* onClick of a status button: setSelectedStatus(status).
SelectStatus ==
    /\ buttons # Null /\ ~loading
    /\ \E i \in 1..Len(buttons) : selectedStatus' = buttons[i]
    /\ UNCHANGED << user, scannedId, scannedStatus, buttons, loading,
                    storeVars >>

(***************************************************************************)
(* DataService.logAction: the addDoc to audit_logs; its error is caught    *)
(* and only printed.                                                       *)
(***************************************************************************)

logAction(c, action) ==
    /\ \/ audit_logs' = Append(audit_logs, action)
       \/ audit_logs' = audit_logs
    /\ calls' = Finish(c, "ok")

(***************************************************************************)
(* DataService.createOrder                                                 *)
(***************************************************************************)

BeginCreateOrder(c) ==
    /\ MayBegin(c)
    /\ \E o \in OrderIds \ createdOrders, n \in 1..MaxItems :
        /\ createdOrders' = createdOrders \cup {o}
        /\ calls' = [calls EXCEPT ![c] =
                        [Idle EXCEPT !.op = "createOrder", !.pc = "setOrder",
                                     !.orderId = o, !.order = << NewOrder(o, n) >>]]
    /\ callsBegun' = callsBegun + 1
    /\ UNCHANGED << scanVars, packages, orders, tracking_events, audit_logs >>

\* await setDoc(doc(db, 'orders', order.id), order)
CreateOrderSetOrder(c) ==
    /\ calls[c].op = "createOrder" /\ calls[c].pc = "setOrder"
    /\ LET order == calls[c].order[1]
       IN  orders' = [o \in DOMAIN orders \cup {order.id} |->
                         IF o = order.id THEN order ELSE orders[o]]
    /\ calls' = Goto(c, "setPackages")
    /\ UNCHANGED << scanVars, packages, tracking_events, audit_logs,
                    createdOrders,
                    callsBegun >>

\* await Promise.all(order.packages.map(pkg => setDoc(...))): the writes in
\* `written` succeed; the call goes on only if none was rejected.
CreateOrderSetPackages(c) ==
    /\ calls[c].op = "createOrder" /\ calls[c].pc = "setPackages"
    /\ LET pkgs == calls[c].order[1].packages
       IN  \E written \in SUBSET (1..Len(pkgs)) :
            /\ packages' = [p \in DOMAIN packages \cup {pkgs[i].id : i \in written} |->
                              IF \E i \in written : pkgs[i].id = p
                              THEN pkgs[CHOOSE i \in written : pkgs[i].id = p]
                              ELSE packages[p]]
            /\ calls' = IF written = 1..Len(pkgs)
                        THEN Goto(c, "logAction")
                        ELSE Finish(c, "error")
    /\ UNCHANGED << scanVars, orders, tracking_events, audit_logs,
                    createdOrders,
                    callsBegun >>

CreateOrderLog(c) ==
    /\ calls[c].op = "createOrder" /\ calls[c].pc = "logAction"
    /\ logAction(c, "ORDER_CREATED")
    /\ UNCHANGED << scanVars, packages, orders, tracking_events, createdOrders,
                    callsBegun >>

(***************************************************************************)
(* DataService.deleteOrder                                                 *)
(***************************************************************************)

BeginDeleteOrder(c) ==
    /\ MayBegin(c)
    /\ \E o \in createdOrders :
        calls' = [calls EXCEPT ![c] =
                     [Idle EXCEPT !.op = "deleteOrder", !.pc = "getOrder",
                                  !.orderId = o]]
    /\ callsBegun' = callsBegun + 1
    /\ UNCHANGED << scanVars, packages, orders, tracking_events, audit_logs,
                    createdOrders >>

\* const orderSnap = await getDoc(orderRef); throws "Order not found".
DeleteOrderGetOrder(c) ==
    /\ calls[c].op = "deleteOrder" /\ calls[c].pc = "getOrder"
    /\ calls' = IF calls[c].orderId \in DOMAIN orders
                THEN [calls EXCEPT ![c].pc = "commit",
                                   ![c].orderData = orders[calls[c].orderId].packages]
                ELSE Finish(c, "Order not found")
    /\ UNCHANGED << scanVars, packages, orders, tracking_events, audit_logs,
                    createdOrders, callsBegun >>

\* await batch.commit(): the packages of the order read and the order itself
\* are deleted atomically.
DeleteOrderCommit(c) ==
    /\ calls[c].op = "deleteOrder" /\ calls[c].pc = "commit"
    /\ LET ids == {calls[c].orderData[i].id : i \in 1..Len(calls[c].orderData)}
       IN  packages' = [p \in DOMAIN packages \ ids |-> packages[p]]
    /\ orders' = [o \in DOMAIN orders \ {calls[c].orderId} |-> orders[o]]
    /\ calls' = Goto(c, "logAction")
    /\ UNCHANGED << scanVars, tracking_events, audit_logs, createdOrders,
                    callsBegun >>

DeleteOrderLog(c) ==
    /\ calls[c].op = "deleteOrder" /\ calls[c].pc = "logAction"
    /\ logAction(c, "ORDER_CREATED")
    /\ UNCHANGED << scanVars, packages, orders, tracking_events, createdOrders,
                    callsBegun >>

(***************************************************************************)
(* DataService.updateOrder: the caller passes a whole Order; the order     *)
(* document and the documents of the packages it lists are set in one      *)
(* batch. The order passed here is the stored one with its package list    *)
(* cut to its first n entries (n = 0: an Order with no package; the method *)
(* takes any Order, the edit form of OrderList keeps n >= 1).              *)
(***************************************************************************)

BeginUpdateOrder(c) ==
    /\ MayBegin(c)
    /\ \E o \in DOMAIN orders, n \in 0..MaxItems :
        /\ n <= Len(orders[o].packages)
        /\ calls' = [calls EXCEPT ![c] =
                        [Idle EXCEPT !.op = "updateOrder", !.pc = "commitOrder",
                                     !.orderId = o,
                                     !.order = << [orders[o] EXCEPT !.packages =
                                                      SubSeq(@, 1, n)] >>]]
    /\ callsBegun' = callsBegun + 1
    /\ UNCHANGED << scanVars, packages, orders, tracking_events, audit_logs,
                    createdOrders >>

\* batch.set(orderRef, order); batch.set(pkgRef, pkg) for each package of
\* the order; await batch.commit().
UpdateOrderCommit(c) ==
    /\ calls[c].op = "updateOrder" /\ calls[c].pc = "commitOrder"
    /\ LET order == calls[c].order[1]
           pkgs == order.packages
       IN  /\ orders' = [o \in DOMAIN orders \cup {order.id} |->
                            IF o = order.id THEN order ELSE orders[o]]
           /\ packages' = [p \in DOMAIN packages \cup
                                  {pkgs[i].id : i \in 1..Len(pkgs)} |->
                              IF \E i \in 1..Len(pkgs) : pkgs[i].id = p
                              THEN pkgs[CHOOSE i \in 1..Len(pkgs) : pkgs[i].id = p]
                              ELSE packages[p]]
    /\ calls' = Goto(c, "logAction")
    /\ UNCHANGED << scanVars, tracking_events, audit_logs, createdOrders,
                    callsBegun >>

UpdateOrderLog(c) ==
    /\ calls[c].op = "updateOrder" /\ calls[c].pc = "logAction"
    /\ logAction(c, "ORDER_UPDATED")
    /\ UNCHANGED << scanVars, packages, orders, tracking_events, createdOrders,
                    callsBegun >>

(***************************************************************************)
(* DataService.updatePackageStatus                                         *)
(***************************************************************************)

\* The ids of the orders whose embedded list holds packageId, as the loop
\* over ordersSnapshot.docs meets them.
OrdersEmbedding(packageId) ==
    {o \in DOMAIN orders :
        \E i \in 1..Len(orders[o].packages) : orders[o].packages[i].id = packageId}

\* order.packages.find(p => p.id === packageId)
FindPackage(pkgs, packageId) ==
    pkgs[CHOOSE i \in 1..Len(pkgs) :
            /\ pkgs[i].id = packageId
            /\ \A j \in 1..(i - 1) : pkgs[j].id # packageId]

\* The package ids a caller can pass: the ids on the labels of the orders
\* placed so far, or an id that is no package's.
ScannableIds ==
    {PkgId(o, k) : o \in createdOrders, k \in 1..MaxItems} \cup {UnknownPkgId}

BeginUpdatePackageStatus(c) ==
    /\ MayBegin(c)
    /\ callsBegun' = callsBegun + 1
    /\ \E p \in ScannableIds, s \in RequestedStatuses, ad \in AdditionalData :
        calls' = [calls EXCEPT ![c] =
                     [Idle EXCEPT !.op = "updatePackageStatus", !.pc = "getPkg",
                                  !.packageId = p, !.newStatus = s,
                                  !.additionalData = ad]]
    /\ UNCHANGED << scanVars, packages, orders, tracking_events, audit_logs,
                    createdOrders >>

\* A variant of UpdateStatusGetPackage with a slip: for a package that has a
\* document the call goes straight on to the order, without the write of the
\* package document.
UpdateStatusGetPackage_orderFirst(c) ==
    /\ calls[c].op = "updatePackageStatus" /\ calls[c].pc = "getPkg"
    /\ LET p == calls[c].packageId
       IN  calls' =
             IF p \notin DOMAIN packages
             THEN Goto(c, "scanOrders")
             ELSE [calls EXCEPT ![c].currentPkg = << packages[p] >>,
                                ![c].orderId = packages[p].orderId,
                                ![c].pc = IF packages[p].orderId = 0
                                          THEN "scanOrders" ELSE "getOrder"]
    /\ UNCHANGED << scanVars, packages, orders, tracking_events, audit_logs,
                    createdOrders, callsBegun >>

\* const pkgSnap = await getDoc(pkgRef)
UpdateStatusGetPackage(c) ==
    /\ calls[c].op = "updatePackageStatus" /\ calls[c].pc = "getPkg"
    /\ LET p == calls[c].packageId
       IN  calls' =
             IF p \notin DOMAIN packages
             THEN Goto(c, "scanOrders")
             ELSE [calls EXCEPT ![c].currentPkg = << packages[p] >>,
                                ![c].orderId = packages[p].orderId,
                                ![c].pc = IF packages[p].orderId = 0
                                          THEN "scanOrders" ELSE "updatePkg"]
    /\ UNCHANGED << scanVars, packages, orders, tracking_events, audit_logs,
                    createdOrders, callsBegun >>

\* A variant of UpdateStatusScanOrders with a slip: a package found in no
\* order is not reported; the call goes on with an empty package object.
UpdateStatusScanOrders_noThrow(c) ==
    /\ calls[c].op = "updatePackageStatus" /\ calls[c].pc = "scanOrders"
    /\ LET p == calls[c].packageId
           found == OrdersEmbedding(p)
           foundOrderId == CHOOSE o \in found : \A o2 \in found : o <= o2
       IN  calls' =
             IF found = {}
             THEN [calls EXCEPT
                     ![c].currentPkg = << [id |-> p, orderId |-> 0,
                                           currentStatus |-> Null, weight |-> 0] >>,
                     ![c].pc = "createPkg"]
             ELSE IF calls[c].currentPkg = << >>
                  THEN [calls EXCEPT
                          ![c].currentPkg =
                              << [FindPackage(orders[foundOrderId].packages, p)
                                     EXCEPT !.orderId = foundOrderId] >>,
                          ![c].orderId = foundOrderId,
                          ![c].pc = "createPkg"]
                  ELSE [calls EXCEPT ![c].orderId = foundOrderId,
                                     ![c].pc = "setOrderId"]
    /\ UNCHANGED << scanVars, packages, orders, tracking_events, audit_logs,
                    createdOrders, callsBegun >>

\* const ordersSnapshot = await getDocs(collection(db, 'orders')) and the loop
\* over it: for a package missing from the collection the embedded copy is
\* taken over; for a package document without orderId only the order id.
UpdateStatusScanOrders(c) ==
    /\ calls[c].op = "updatePackageStatus" /\ calls[c].pc = "scanOrders"
    /\ LET p == calls[c].packageId
           found == OrdersEmbedding(p)
           foundOrderId == CHOOSE o \in found : \A o2 \in found : o <= o2
       IN  calls' =
             IF calls[c].currentPkg = << >>
             THEN IF found = {}
                  THEN Finish(c, "Package not found in any order")
                  ELSE [calls EXCEPT
                          ![c].currentPkg =
                              << [FindPackage(orders[foundOrderId].packages, p)
                                     EXCEPT !.orderId = foundOrderId] >>,
                          ![c].orderId = foundOrderId,
                          ![c].pc = "createPkg"]
             ELSE IF found = {}
                  THEN Finish(c, "Cannot find orderId for package")
                  ELSE [calls EXCEPT ![c].orderId = foundOrderId,
                                     ![c].pc = "setOrderId"]
    /\ UNCHANGED << scanVars, packages, orders, tracking_events, audit_logs,
                    createdOrders, callsBegun >>

\* A variant of UpdateStatusCreatePackage with a slip: the package found in
\* an order is not written to the packages collection.
UpdateStatusCreatePackage_noCreate(c) ==
    /\ calls[c].op = "updatePackageStatus"
    /\ calls[c].pc \in {"createPkg", "setOrderId"}
    /\ calls' = Written(c, "setDoc packages", "updatePkg")
    /\ UNCHANGED << scanVars, packages, orders, tracking_events, audit_logs,
                    createdOrders, callsBegun >>

\* await setDoc(pkgRef, currentPkg), or for a document without orderId
\* await updateDoc(pkgRef, { orderId }), which needs the document to exist.
UpdateStatusCreatePackage(c) ==
    /\ calls[c].op = "updatePackageStatus"
    /\ calls[c].pc \in {"createPkg", "setOrderId"}
    /\ LET p == calls[c].packageId
       IN  IF calls[c].pc = "createPkg"
           THEN /\ packages' = [q \in DOMAIN packages \cup {p} |->
                                   IF q = p THEN calls[c].currentPkg[1]
                                   ELSE packages[q]]
                /\ calls' = Written(c, "setDoc packages", "updatePkg")
           ELSE IF p \in DOMAIN packages
                THEN /\ packages' = [packages EXCEPT ![p].orderId = calls[c].orderId]
                     /\ calls' = Written(c, "updateDoc packages orderId", "updatePkg")
                ELSE /\ packages' = packages
                     /\ calls' = Finish(c, NoDocument)
    /\ UNCHANGED << scanVars, orders, tracking_events, audit_logs,
                    createdOrders,
                    callsBegun >>

\* A variant of UpdateStatusUpdatePackage that compares the stored document
\* with the one the call loaded and rejects the write when they differ.
UpdateStatusUpdatePackage_compareFirst(c) ==
    /\ calls[c].op = "updatePackageStatus" /\ calls[c].pc = "updatePkg"
    /\ LET p == calls[c].packageId
       IN  IF p \in DOMAIN packages /\ packages[p] = calls[c].currentPkg[1]
           THEN /\ packages' = [packages EXCEPT ![p] =
                                   ApplyUpdate(@, calls[c].newStatus,
                                               calls[c].additionalData)]
                /\ calls' = Written(c, "updateDoc packages", "getOrder")
           ELSE /\ packages' = packages
                /\ calls' = Finish(c, IF p \in DOMAIN packages
                                      THEN "conflict" ELSE NoDocument)
    /\ UNCHANGED << scanVars, orders, tracking_events, audit_logs,
                    createdOrders, callsBegun >>

\* await updateDoc(pkgRef, { currentStatus: newStatus, ...additionalData }):
\* rejected when the document does not exist.
UpdateStatusUpdatePackage(c) ==
    /\ calls[c].op = "updatePackageStatus" /\ calls[c].pc = "updatePkg"
    /\ LET p == calls[c].packageId
       IN  IF p \in DOMAIN packages
           THEN /\ packages' = [packages EXCEPT ![p] =
                                   ApplyUpdate(@, calls[c].newStatus,
                                               calls[c].additionalData)]
                /\ calls' = Written(c, "updateDoc packages", "getOrder")
           ELSE /\ packages' = packages
                /\ calls' = Finish(c, NoDocument)
    /\ UNCHANGED << scanVars, orders, tracking_events, audit_logs,
                    createdOrders,
                    callsBegun >>

\* const orderSnap = await getDoc(orderRef) and, if the order exists, the
\* computation of updatedPackages and overallStatus from it.
UpdateStatusGetOrder(c) ==
    /\ calls[c].op = "updatePackageStatus" /\ calls[c].pc = "getOrder"
    /\ LET o == calls[c].orderId
           updated == MapPackages(orders[o].packages, calls[c].packageId,
                                  calls[c].newStatus, calls[c].additionalData)
       IN  calls' =
             IF o \in DOMAIN orders
             THEN [calls EXCEPT
                     ![c].orderData = orders[o].packages,
                     ![c].updatedPackages = updated,
                     ![c].overallStatus = OverallStatus(updated, calls[c].newStatus),
                     ![c].pc = "updateOrder"]
             ELSE Goto(c, "addEvent")
    /\ UNCHANGED << scanVars, packages, orders, tracking_events, audit_logs,
                    createdOrders, callsBegun >>

\* A variant of UpdateStatusUpdateOrder with a slip: the packages array is
\* written without the status.
UpdateStatusUpdateOrder_packagesOnly(c) ==
    /\ calls[c].op = "updatePackageStatus" /\ calls[c].pc = "updateOrder"
    /\ LET o == calls[c].orderId
       IN  IF o \in DOMAIN orders
           THEN /\ orders' = [orders EXCEPT
                                ![o].packages = calls[c].updatedPackages]
                /\ calls' = Written(c, "updateDoc orders", "addEvent")
           ELSE /\ orders' = orders
                /\ calls' = Finish(c, NoDocument)
    /\ UNCHANGED << scanVars, packages, tracking_events, audit_logs,
                    createdOrders, callsBegun >>

\* await updateDoc(orderRef, { packages: updatedPackages, status: overallStatus })
UpdateStatusUpdateOrder(c) ==
    /\ calls[c].op = "updatePackageStatus" /\ calls[c].pc = "updateOrder"
    /\ LET o == calls[c].orderId
       IN  IF o \in DOMAIN orders
           THEN /\ orders' = [orders EXCEPT
                                ![o].packages = calls[c].updatedPackages,
                                ![o].status = calls[c].overallStatus]
                /\ calls' = Written(c, "updateDoc orders", "addEvent")
           ELSE /\ orders' = orders
                /\ calls' = Finish(c, NoDocument)
    /\ UNCHANGED << scanVars, packages, tracking_events, audit_logs,
                    createdOrders,
                    callsBegun >>

\* A variant of UpdateStatusAddEvent with a slip: the event carries the status
\* the package was loaded with instead of newStatus.
UpdateStatusAddEvent_oldStatus(c) ==
    /\ calls[c].op = "updatePackageStatus" /\ calls[c].pc = "addEvent"
    /\ tracking_events' = Append(tracking_events,
                                 [packageId |-> calls[c].packageId,
                                  status |-> calls[c].currentPkg[1].currentStatus])
    /\ calls' = Written(c, "addDoc tracking_events", "logAction")
    /\ UNCHANGED << scanVars, packages, orders, audit_logs, createdOrders,
                    callsBegun >>

\* await addDoc(collection(db, 'tracking_events'), { packageId, status, ... })
UpdateStatusAddEvent(c) ==
    /\ calls[c].op = "updatePackageStatus" /\ calls[c].pc = "addEvent"
    /\ tracking_events' = Append(tracking_events,
                                 [packageId |-> calls[c].packageId,
                                  status |-> calls[c].newStatus])
    /\ calls' = Written(c, "addDoc tracking_events", "logAction")
    /\ UNCHANGED << scanVars, packages, orders, audit_logs, createdOrders,
                    callsBegun >>

UpdateStatusLog(c) ==
    /\ calls[c].op = "updatePackageStatus" /\ calls[c].pc = "logAction"
    /\ logAction(c, "STATUS_UPDATE")
    /\ UNCHANGED << scanVars, packages, orders, tracking_events, createdOrders,
                    callsBegun >>

(***************************************************************************)
(* DataService.updatePackageInternalTrackingCode                           *)
(* (updatePackageInternalOrderId is the same code for another field)       *)
(***************************************************************************)

BeginUpdateTrackingCode(c) ==
    /\ MayBegin(c)
    /\ callsBegun' = callsBegun + 1
    /\ \E p \in ScannableIds :
        calls' = [calls EXCEPT ![c] =
                     [Idle EXCEPT !.op = "updatePackageInternalTrackingCode",
                                  !.pc = "tcFindOrder", !.packageId = p]]
    /\ UNCHANGED << scanVars, packages, orders, tracking_events, audit_logs,
                    createdOrders >>

\* const ordersSnapshot = await getDocs(collection(db, 'orders')) and the loop
\* that keeps foundOrder and foundPackage; throws when no order holds the
\* package.
TrackingCodeFindOrder(c) ==
    /\ calls[c].op = "updatePackageInternalTrackingCode"
    /\ calls[c].pc = "tcFindOrder"
    /\ LET p == calls[c].packageId
           found == OrdersEmbedding(p)
           foundOrderId == CHOOSE o \in found : \A o2 \in found : o <= o2
       IN  calls' =
             IF found = {}
             THEN Finish(c, "Package not found")
             ELSE [calls EXCEPT
                     ![c].orderId = foundOrderId,
                     ![c].orderData = orders[foundOrderId].packages,
                     ![c].currentPkg =
                         << FindPackage(orders[foundOrderId].packages, p) >>,
                     ![c].pc = "tcUpdateOrder"]
    /\ UNCHANGED << scanVars, packages, orders, tracking_events, audit_logs,
                    createdOrders, callsBegun >>

\* foundOrder.packages.map(p => p.id === packageId
\*                               ? { ...p, internalTrackingCode } : p)
WithTrackingCode(pkgs, packageId) ==
    [i \in 1..Len(pkgs) |->
        IF pkgs[i].id = packageId
        THEN [pkgs[i] EXCEPT !.internalTrackingCode = TrackingCode]
        ELSE pkgs[i]]

\* await updateDoc(orderRef, { packages: updatedPackages }): the list read by
\* getDocs, with the code, replaces the embedded list.
TrackingCodeUpdateOrder(c) ==
    /\ calls[c].op = "updatePackageInternalTrackingCode"
    /\ calls[c].pc = "tcUpdateOrder"
    /\ LET o == calls[c].orderId
       IN  IF o \in DOMAIN orders
           THEN /\ orders' = [orders EXCEPT
                                ![o].packages =
                                    WithTrackingCode(calls[c].orderData,
                                                     calls[c].packageId)]
                /\ calls' = Goto(c, "tcGetPkg")
           ELSE /\ orders' = orders
                /\ calls' = Finish(c, NoDocument)
    /\ UNCHANGED << scanVars, packages, tracking_events, audit_logs,
                    createdOrders, callsBegun >>

\* const pkgSnap = await getDoc(pkgRef); if (pkgSnap.exists()) ... else ...
TrackingCodeGetPackage(c) ==
    /\ calls[c].op = "updatePackageInternalTrackingCode"
    /\ calls[c].pc = "tcGetPkg"
    /\ calls' = Goto(c, IF calls[c].packageId \in DOMAIN packages
                        THEN "tcUpdatePkg" ELSE "tcSetPkg")
    /\ UNCHANGED << scanVars, packages, orders, tracking_events, audit_logs,
                    createdOrders, callsBegun >>

\* await updateDoc(pkgRef, { internalTrackingCode }) for a document that was
\* there, await setDoc(pkgRef, { ...foundPackage, internalTrackingCode })
\* for one that was not.
TrackingCodeWritePackage(c) ==
    /\ calls[c].op = "updatePackageInternalTrackingCode"
    /\ calls[c].pc \in {"tcUpdatePkg", "tcSetPkg"}
    /\ LET p == calls[c].packageId
       IN  IF calls[c].pc = "tcSetPkg"
           THEN /\ packages' = [q \in DOMAIN packages \cup {p} |->
                                   IF q = p
                                   THEN [calls[c].currentPkg[1] EXCEPT
                                           !.internalTrackingCode = TrackingCode]
                                   ELSE packages[q]]
                /\ calls' = Goto(c, "logAction")
           ELSE IF p \in DOMAIN packages
                THEN /\ packages' = [packages EXCEPT
                                       ![p].internalTrackingCode = TrackingCode]
                     /\ calls' = Goto(c, "logAction")
                ELSE /\ packages' = packages
                     /\ calls' = Finish(c, NoDocument)
    /\ UNCHANGED << scanVars, orders, tracking_events, audit_logs,
                    createdOrders, callsBegun >>

TrackingCodeLog(c) ==
    /\ calls[c].op = "updatePackageInternalTrackingCode"
    /\ calls[c].pc = "logAction"
    /\ logAction(c, "TRACKING_CODE_UPDATE")
    /\ UNCHANGED << scanVars, packages, orders, tracking_events, createdOrders,
                    callsBegun >>

(***************************************************************************)
(* The repository and the callers                                          *)
(***************************************************************************)

\* A variant of RepositoryError with a slip: the catch block prints the error
\* and does not rethrow it, so the call resolves.
RepositoryError_swallowed(c) ==
    /\ calls[c].pc \notin {"idle", "done", "logAction"}
    /\ calls' = Finish(c, "ok")
    /\ UNCHANGED << scanVars, packages, orders, tracking_events, audit_logs,
                    createdOrders, callsBegun >>

\* The Firestore call a method is waiting for is rejected: the method's catch
\* block rethrows, nothing is written. (logAction catches its own error.)
RepositoryError(c) ==
    /\ calls[c].pc \notin {"idle", "done", "logAction"}
    /\ calls' = Finish(c, "error")
    /\ UNCHANGED << scanVars, packages, orders, tracking_events, audit_logs,
                    createdOrders, callsBegun >>

(***************************************************************************)
(* The scan page calling the data service: handleScan and                  *)
(* handleConfirmStatusUpdate of ScanQR, run by the client c of the page.   *)
(***************************************************************************)

\* The roles logged in on the scan page in SpecScan: the agent who owns the
\* statuses of a new package and an agent who does not.
ScanUsers == {"CHINA_AGENT", "UAE_AGENT"}

\* handleScan with a package id as the code: getPackageById(searchCode) and
\* setScannedPackage; the status picked earlier stays selected.
HandleScan(c) ==
    /\ ~loading /\ calls[c].pc \in {"idle", "done"}
    /\ \E p \in ScannableIds :
        IF p \in DOMAIN packages
        THEN scannedId' = p /\ scannedStatus' = packages[p].currentStatus
        ELSE scannedId' = UnknownPkgId /\ scannedStatus' = Null
    /\ buttons' = Null
    /\ UNCHANGED << user, selectedStatus, loading, storeVars >>

\* handleScan with an order id as the code, then handlePackageSelection (or
\* the automatic choice for an order of one package): the package taken is
\* the document of a package of the order or, if it has none, the copy
\* embedded in the order.
HandleScanOrder(c) ==
    /\ ~loading /\ calls[c].pc \in {"idle", "done"}
    /\ \E o \in DOMAIN orders :
        \E i \in 1..Len(orders[o].packages) :
            LET orderPkg == orders[o].packages[i]
                pkg == IF orderPkg.id \in DOMAIN packages
                       THEN packages[orderPkg.id] ELSE orderPkg
            IN  scannedId' = pkg.id /\ scannedStatus' = pkg.currentStatus
    /\ buttons' = Null
    /\ UNCHANGED << user, selectedStatus, loading, storeVars >>

\* handleConfirmStatusUpdate up to its call of updatePackageStatus with
\* scannedPackage.id and selectedStatus.
ConfirmStatusUpdate(c) ==
    /\ ~loading /\ MayBegin(c)
    /\ scannedId # UnknownPkgId /\ user # Null /\ selectedStatus # Null
    /\ \E ad \in AdditionalData :
        calls' = [calls EXCEPT ![c] =
                     [Idle EXCEPT !.op = "updatePackageStatus", !.pc = "getPkg",
                                  !.packageId = scannedId,
                                  !.newStatus = selectedStatus,
                                  !.additionalData = ad]]
    /\ loading' = TRUE
    /\ callsBegun' = callsBegun + 1
    /\ UNCHANGED << user, scannedId, scannedStatus, buttons, selectedStatus,
                    packages, orders, tracking_events, audit_logs,
                    createdOrders >>

\* handleConfirmStatusUpdate after the call: on success the refresh by
\* getPackageById and setSelectedStatus(null); on an error only the message;
\* finally setLoading(false).
ConfirmDone(c) ==
    /\ loading
    /\ calls[c].op = "updatePackageStatus" /\ calls[c].pc = "done"
    /\ IF calls[c].result = "ok"
       THEN /\ IF scannedId \in DOMAIN packages
               THEN /\ scannedStatus' = packages[scannedId].currentStatus
                    /\ scannedId' = scannedId
               ELSE /\ scannedStatus' = Null
                    /\ scannedId' = UnknownPkgId
            /\ selectedStatus' = Null
            /\ buttons' = Null
       ELSE UNCHANGED << scannedId, scannedStatus, selectedStatus, buttons >>
    /\ loading' = FALSE
    /\ UNCHANGED << user, storeVars >>

(***************************************************************************)
(* Specifications                                                          *)
(***************************************************************************)

\* The scan page is closed.
ScanIdle ==
    /\ user = Null /\ scannedId = UnknownPkgId /\ scannedStatus = Null
    /\ buttons = Null /\ selectedStatus = Null /\ loading = FALSE

\* No order has been placed yet and nobody is calling the data service.
StoreInit ==
    /\ packages = << >>
    /\ orders = << >>
    /\ tracking_events = << >>
    /\ audit_logs = << >>
    /\ calls = [c \in Callers |-> Idle]
    /\ createdOrders = {}
    /\ callsBegun = 0

ScanNext == RenderButtons \/ SelectStatus

\* One step of the data-service call of caller c.
CallStep(c) ==
    \/ BeginCreateOrder(c)
    \/ CreateOrderSetOrder(c)
    \/ CreateOrderSetPackages(c)
    \/ CreateOrderLog(c)
    \/ BeginDeleteOrder(c)
    \/ DeleteOrderGetOrder(c)
    \/ DeleteOrderCommit(c)
    \/ DeleteOrderLog(c)
    \/ BeginUpdatePackageStatus(c)
    \/ UpdateStatusGetPackage(c)
    \/ UpdateStatusScanOrders(c)
    \/ UpdateStatusCreatePackage(c)
    \/ UpdateStatusUpdatePackage(c)
    \/ UpdateStatusGetOrder(c)
    \/ UpdateStatusUpdateOrder(c)
    \/ UpdateStatusAddEvent(c)
    \/ UpdateStatusLog(c)
    \/ RepositoryError(c)

Init == ScanIdle /\ StoreInit

Next == \E c \in Callers : CallStep(c)

NextSeq == CallStep(1)

\* The data service called by NumCallers clients concurrently, each running
\* one call at a time.
Spec == Init /\ [][Next]_vars

\* The data service called by one client: one call at a time.
SpecSeq == Init /\ [][NextSeq]_vars

\* One step of a client that also edits orders through updateOrder.
NextEdit ==
    \/ CallStep(1)
    \/ BeginUpdateOrder(1)
    \/ UpdateOrderCommit(1)
    \/ UpdateOrderLog(1)

\* The data service called by one client, updateOrder included.
SpecEdit == Init /\ [][NextEdit]_vars

\* Client 1 places orders and updates statuses; client 2 sets internal
\* tracking codes at the same time.
NextMeta ==
    \/ BeginCreateOrder(1)
    \/ CreateOrderSetOrder(1)
    \/ CreateOrderSetPackages(1)
    \/ CreateOrderLog(1)
    \/ BeginUpdatePackageStatus(1)
    \/ UpdateStatusGetPackage(1)
    \/ UpdateStatusScanOrders(1)
    \/ UpdateStatusCreatePackage(1)
    \/ UpdateStatusUpdatePackage(1)
    \/ UpdateStatusGetOrder(1)
    \/ UpdateStatusUpdateOrder(1)
    \/ UpdateStatusAddEvent(1)
    \/ UpdateStatusLog(1)
    \/ BeginUpdateTrackingCode(2)
    \/ TrackingCodeFindOrder(2)
    \/ TrackingCodeUpdateOrder(2)
    \/ TrackingCodeGetPackage(2)
    \/ TrackingCodeWritePackage(2)
    \/ TrackingCodeLog(2)
    \/ \E c \in Callers : RepositoryError(c)

SpecMeta == Init /\ [][NextMeta]_vars

PolicyInit == ScanInit /\ StoreInit

\* An order is placed while the scan page is not waiting for the service;
\* order ids are taken in increasing order (ids are interchangeable).
PlaceOrder(c) ==
    /\ ~loading
    /\ BeginCreateOrder(c)
    /\ \A o \in OrderIds \ createdOrders : calls'[c].orderId <= o

\* A user has opened the scan page; nothing is scanned yet.
ScanStart ==
    /\ user \in ScanUsers
    /\ scannedId = UnknownPkgId /\ scannedStatus = Null
    /\ buttons = Null /\ selectedStatus = Null /\ loading = FALSE
    /\ StoreInit

\* One client: orders are placed by createOrder, statuses are changed only
\* through the scan page.
NextScan ==
    \/ PlaceOrder(1)
    \/ CreateOrderSetOrder(1)
    \/ CreateOrderSetPackages(1)
    \/ CreateOrderLog(1)
    \/ HandleScan(1)
    \/ HandleScanOrder(1)
    \/ RenderButtons
    \/ SelectStatus
    \/ ConfirmStatusUpdate(1)
    \/ UpdateStatusGetPackage(1)
    \/ UpdateStatusScanOrders(1)
    \/ UpdateStatusCreatePackage(1)
    \/ UpdateStatusUpdatePackage(1)
    \/ UpdateStatusGetOrder(1)
    \/ UpdateStatusUpdateOrder(1)
    \/ UpdateStatusAddEvent(1)
    \/ UpdateStatusLog(1)
    \/ RepositoryError(1)
    \/ ConfirmDone(1)

SpecScan == ScanStart /\ [][NextScan]_vars

\* The role-transition policy applied to every user and status.
SpecPolicy == PolicyInit /\ [][ScanNext]_vars

(***************************************************************************)
(* One package followed through the scan page by the agents: every update  *)
(* confirmed runs alone and succeeds, so handleConfirmStatusUpdate with    *)
(* its call of updatePackageStatus and its refresh is one step.            *)
(***************************************************************************)

\* The three agent roles.
AgentRoles == {"CHINA_AGENT", "UAE_AGENT", "IRAN_AGENT"}

\* An order of one package has been placed; an agent has scanned the package.
WalkInit ==
    /\ user \in AgentRoles
    /\ scannedId = PkgId(1, 1)
    /\ scannedStatus = "PURCHASED_FROM_SELLER"
    /\ buttons = Null /\ selectedStatus = Null /\ loading = FALSE
    /\ packages = [p \in {PkgId(1, 1)} |-> NewPackage(1, 1)]
    /\ orders = [o \in {1} |-> NewOrder(1, 1)]
    /\ tracking_events = << >>
    /\ audit_logs = << "ORDER_CREATED" >>
    /\ calls = [c \in Callers |-> Idle]
    /\ createdOrders = {1}
    /\ callsBegun = 1

\* Another agent logs in on the scan page and scans the package: handleScan
\* on a page whose state is new.
WalkHandOver ==
    /\ ~loading
    /\ \E role \in AgentRoles \ {user} : user' = role
    /\ scannedStatus' = packages[scannedId].currentStatus
    /\ buttons' = Null /\ selectedStatus' = Null
    /\ UNCHANGED << scannedId, loading, storeVars >>

\* handleConfirmStatusUpdate when updatePackageStatus runs alone and every
\* Firestore call of it succeeds: the package document, the order document,
\* the tracking event (with the userId of the agent), the audit log, then the
\* refresh of the page.
WalkConfirm ==
    /\ ~loading
    /\ scannedId # UnknownPkgId /\ user # Null /\ selectedStatus # Null
    /\ Len(tracking_events) < MaxWalk
    /\ LET p == scannedId
           o == packages[p].orderId
           ad == [weight |-> 0]
           updatedPackages == MapPackages(orders[o].packages, p,
                                          selectedStatus, ad)
       IN  /\ packages' = [packages EXCEPT
                              ![p] = ApplyUpdate(@, selectedStatus, ad)]
           /\ orders' = [orders EXCEPT
                            ![o].packages = updatedPackages,
                            ![o].status = OverallStatus(updatedPackages,
                                                        selectedStatus)]
           /\ tracking_events' = Append(tracking_events,
                                        [packageId |-> p,
                                         status |-> selectedStatus,
                                         userId |-> user])
    /\ audit_logs' = Append(audit_logs, "STATUS_UPDATE")
    /\ callsBegun' = callsBegun + 1
    /\ scannedStatus' = selectedStatus
    /\ selectedStatus' = Null /\ buttons' = Null
    /\ UNCHANGED << user, scannedId, loading, calls, createdOrders >>

NextWalk == RenderButtons \/ SelectStatus \/ WalkHandOver \/ WalkConfirm

SpecWalk == WalkInit /\ [][NextWalk]_vars

(***************************************************************************)
(* Properties of the role-transition policy (checked under SpecPolicy)     *)
(***************************************************************************)

\* The four operational roles: the three agents and the administrator.
OperationalRoles == {"CHINA_AGENT", "UAE_AGENT", "IRAN_AGENT", "ADMIN"}

\* The scan page has rendered its buttons for an operational user.
Rendered == buttons # Null /\ user \in OperationalRoles

\* The 1-based position of the first occurrence of x in seq.
FirstPos(seq, x) ==
    CHOOSE i \in 1..Len(seq) : seq[i] = x /\ \A j \in 1..(i - 1) : seq[j] # x

\* C1: for a current status in the role's phase list, the statuses offered are
\* exactly the elements of that list after the current status, in list order
\* (all of them, not only the next one); the origin agent at RECEIVED_IN_CHINA
\* is offered QC_CHECKED, PACKED_CHINA, READY_TO_SHIP_UAE, SHIPPED_TO_UAE.
C1_AllLaterStatusesInOrder ==
    (Rendered /\ scannedStatus \in Range(allowedStatuses(user))) =>
        LET list == allowedStatuses(user)
            pos == FirstPos(list, scannedStatus)
        IN  /\ Len(buttons) = Len(list) - pos
            /\ \A j \in 1..Len(buttons) : buttons[j] = list[pos + j]
            /\ (user = "CHINA_AGENT" /\ scannedStatus = "RECEIVED_IN_CHINA") =>
                  buttons = << "QC_CHECKED", "PACKED_CHINA", "READY_TO_SHIP_UAE",
                               "SHIPPED_TO_UAE" >>

C1_Witness ==
    /\ Rendered
    /\ user = "CHINA_AGENT" /\ scannedStatus = "RECEIVED_IN_CHINA"
    /\ Len(buttons) = 4

\* C2: every status offered to a role belongs to the phase list of that role,
\* also when the current status is a boundary status of two phases.
C2_RoleContainment ==
    Rendered =>
        \A j \in 1..Len(buttons) : buttons[j] \in Range(allowedStatuses(user))

C2_Witness ==
    /\ Rendered
    /\ user = "UAE_AGENT" /\ scannedStatus = "SHIPPED_TO_UAE"
    /\ Len(buttons) > 0
    /\ \A j \in 1..Len(buttons) : buttons[j] \notin Range(chinaStatuses)

\* C3: for every role, the administrator included, no status offered is the
\* current status or an earlier one: each has a phase-list index greater than
\* the index of the current status.
C3_Monotonicity ==
    (Rendered /\ scannedStatus \in Range(PackageStatus)) =>
        \A j \in 1..Len(buttons) :
            /\ buttons[j] # scannedStatus
            /\ indexOf(allowedStatuses(user), buttons[j])
                  > indexOf(allowedStatuses(user), scannedStatus)

\* C4: nothing is offered when the current status is not in the role's phase
\* list: ISSUE_REPORTED for every role, a status of another phase for an agent.
C4_EmptyOutsidePhase ==
    (/\ Rendered
     /\ scannedStatus \in Range(PackageStatus)
     /\ scannedStatus \notin Range(allowedStatuses(user))) =>
        buttons = << >>

C4_Witness ==
    /\ Rendered
    /\ user = "UAE_AGENT" /\ scannedStatus = "RECEIVED_IN_CHINA"
    /\ buttons = << >>

(***************************************************************************)
(* Properties of the aggregate status                                      *)
(***************************************************************************)

\* A status of the ordered pipeline: every status but ISSUE_REPORTED.
Ranked(status) == status \in Range(PackageStatus) \ {"ISSUE_REPORTED"}

\* The rank of a pipeline status: its position in the ordered list.
Rank(status) == FirstPos(PackageStatus, status)

StatusesOf(pkgs) == {pkgs[i].currentStatus : i \in 1..Len(pkgs)}

\* An updatePackageStatus call that has computed overallStatus from the order
\* it read and is about to write it.
Aggregated(c) ==
    calls[c].op = "updatePackageStatus" /\ calls[c].pc = "updateOrder"

\* C5: for two or more packages of which at least one has a pipeline status,
\* the aggregate is the pipeline status of minimum rank among them; it is
\* never ISSUE_REPORTED and never more advanced than any ranked package.
C5_MinimumRank ==
    \A c \in Callers :
        (/\ Aggregated(c)
         /\ Len(calls[c].updatedPackages) >= 2
         /\ \E st \in StatusesOf(calls[c].updatedPackages) : Ranked(st)) =>
            /\ Ranked(calls[c].overallStatus)
            /\ calls[c].overallStatus \in StatusesOf(calls[c].updatedPackages)
            /\ \A st \in StatusesOf(calls[c].updatedPackages) :
                  Ranked(st) => Rank(calls[c].overallStatus) <= Rank(st)

C5_Witness ==
    \E c \in Callers :
        /\ Aggregated(c)
        /\ Len(calls[c].updatedPackages) = 2
        /\ calls[c].updatedPackages[1].currentStatus = "DELIVERED"
        /\ calls[c].updatedPackages[2].currentStatus = "RECEIVED_IN_CHINA"
        /\ calls[c].newStatus = "DELIVERED"
        /\ calls[c].overallStatus = "RECEIVED_IN_CHINA"

C7_AllIssueReported ==
    \A c \in Callers :
        (/\ Aggregated(c)
         /\ Len(calls[c].updatedPackages) >= 2
         /\ StatusesOf(calls[c].updatedPackages) = {"ISSUE_REPORTED"}) =>
            calls[c].overallStatus = "ISSUE_REPORTED"

C7_Witness ==
    \E c \in Callers :
        /\ calls[c].op = "updatePackageStatus" /\ calls[c].pc = "addEvent"
        /\ calls[c].orderId \in DOMAIN orders
        /\ Len(orders[calls[c].orderId].packages) >= 2
        /\ StatusesOf(orders[calls[c].orderId].packages) = {"ISSUE_REPORTED"}
        /\ orders[calls[c].orderId].status = "ISSUE_REPORTED"

Resolve(pkgs) ==
    IF Len(pkgs) = 1 THEN pkgs[1].currentStatus
    ELSE IF \A st \in StatusesOf(pkgs) : ~Ranked(st) THEN "ISSUE_REPORTED"
    ELSE CHOOSE st \in StatusesOf(pkgs) :
            /\ Ranked(st)
            /\ \A st2 \in StatusesOf(pkgs) : Ranked(st2) => Rank(st) <= Rank(st2)

\* No call is in progress.
Quiescent == \A c \in Callers : calls[c].pc \in {"idle", "done"}

\* The last call of caller c was an updatePackageStatus that resolved.
UpdateSucceeded(c) ==
    /\ calls[c].op = "updatePackageStatus"
    /\ calls[c].pc = "done" /\ calls[c].result = "ok"

PackageWritten(c) ==
    /\ calls[c].op = "updatePackageStatus"
    /\ calls[c].pc \in {"getOrder", "updateOrder", "addEvent", "logAction"}

\* C11 (checked under SpecScan): a requested status that is not among the
\* next statuses allowed to the user for the status the package was loaded
\* with is rejected before anything is written.
C11_IllegalTransitionRejected ==
    \A c \in Callers :
        PackageWritten(c) =>
            calls[c].newStatus \in
                Range(getAvailableNextStatuses(
                          user, calls[c].currentPkg[1].currentStatus))

\* C12 (an action property): when updatePackageStatus, having found no
\* package document, scans the orders and none embeds the package, its step
\* ends the call with an error, the call has written nothing, and the step
\* changes no collection.
C12_NotFoundWritesNothing ==
    [][\A c \in Callers :
          (/\ calls[c].op = "updatePackageStatus"
           /\ calls[c].pc = "scanOrders"
           /\ calls[c].currentPkg = << >>
           /\ OrdersEmbedding(calls[c].packageId) = {}
           /\ calls'[c] # calls[c]) =>
              /\ calls'[c].pc = "done"
              /\ calls'[c].result \in {"Package not found in any order", "error"}
              /\ calls'[c].writes = << >>
              /\ UNCHANGED << packages, orders, tracking_events >>]_vars

\* A call has ended with the error thrown for a package found nowhere.
C12_Witness ==
    \E c \in Callers :
        /\ calls[c].op = "updatePackageStatus" /\ calls[c].pc = "done"
        /\ calls[c].result = "Package not found in any order"
        /\ calls[c].packageId \notin DOMAIN packages
        /\ OrdersEmbedding(calls[c].packageId) = {}

\* The call of caller c took the recovery path: its first write created the
\* package document from the copy embedded in an order.
Recovered(c) ==
    /\ calls[c].op = "updatePackageStatus"
    /\ Len(calls[c].writes) > 0
    /\ calls[c].writes[1] = "setDoc packages"

\* C13 (checked under SpecSeq): a call that found the package only inside an
\* order ends well unless Firestore rejects one of its calls, and when it
\* has ended well the package document exists, names the order that embeds
\* the package, and holds the requested status.
C13_RecoveryMaterializes ==
    \A c \in Callers :
        (Recovered(c) /\ calls[c].pc = "done") =>
            /\ calls[c].result \in {"ok", "error"}
            /\ calls[c].result = "ok" =>
                  LET p == calls[c].packageId
                  IN  /\ p \in DOMAIN packages
                      /\ packages[p].orderId \in OrdersEmbedding(p)
                      /\ packages[p].orderId = calls[c].orderId
                      /\ packages[p].currentStatus = calls[c].newStatus

C13_Witness ==
    \E c \in Callers :
        /\ Recovered(c) /\ UpdateSucceeded(c)
        /\ calls[c].writes = << "setDoc packages", "updateDoc packages",
                                "updateDoc orders", "addDoc tracking_events" >>
        /\ packages[calls[c].packageId].currentStatus = "DELIVERED"

(***************************************************************************)
(* Tracking events                                                         *)
(***************************************************************************)

\* The number of tracking events the call of caller c has appended.
EventsAppended(c) ==
    Cardinality({i \in 1..Len(calls[c].writes) :
                    calls[c].writes[i] = "addDoc tracking_events"})

\* The call of caller c was an updatePackageStatus and has ended.
UpdateEnded(c) ==
    calls[c].op = "updatePackageStatus" /\ calls[c].pc = "done"

\* When an updatePackageStatus has ended: one event appended if it resolved,
\* none if it was rejected.
OneEventPerSuccess ==
    \A c \in Callers :
        UpdateEnded(c) =>
            EventsAppended(c) = (IF calls[c].result = "ok" THEN 1 ELSE 0)

\* A step leaves the log as it is or appends to it the event of an update in
\* progress: its package id and its new status.
LogOnlyGrows ==
    \/ tracking_events' = tracking_events
    \/ \E c \in Callers :
          /\ calls[c].op = "updatePackageStatus"
          /\ calls'[c].writes = Append(calls[c].writes, "addDoc tracking_events")
          /\ tracking_events' =
                Append(tracking_events, [packageId |-> calls[c].packageId,
                                         status |-> calls[c].newStatus])

\* C14: every updatePackageStatus that resolves has appended exactly one
\* tracking event, for its package and its new status; one that is rejected
\* has appended none; and no step of any operation changes or removes an
\* event already in the log.
C14_OneEventPerSuccessfulUpdate ==
    []OneEventPerSuccess /\ [][LogOnlyGrows]_vars

C14_Witness ==
    /\ Len(tracking_events) = 1
    /\ \E c \in Callers :
          /\ UpdateSucceeded(c)
          /\ tracking_events[1] = [packageId |-> calls[c].packageId,
                                   status |-> calls[c].newStatus]
    /\ \E c \in Callers :
          /\ UpdateEnded(c) /\ calls[c].result # "ok"
          /\ calls[c].writes # << >>

(***************************************************************************)
(* Failures of the writes of updatePackageStatus                           *)
(***************************************************************************)

\* The awaits of updatePackageStatus that are writes.
WritePcs == {"createPkg", "setOrderId", "updatePkg", "updateOrder", "addEvent"}

\* In this step the write the call of caller c is waiting for is rejected:
\* the call ends there.
WriteRejected(c) ==
    /\ calls[c].op = "updatePackageStatus"
    /\ calls[c].pc \in WritePcs
    /\ calls'[c].pc = "done"

\* C15 (an action property): when a write of updatePackageStatus is
\* rejected, the call ends with an error, not with success; the rejected write
\* is not made and no further write of the call follows it.
C15_WriteFailurePropagates ==
    [][\A c \in Callers :
          WriteRejected(c) =>
              /\ calls'[c].result # "ok"
              /\ calls'[c].writes = calls[c].writes
              /\ UNCHANGED << packages, orders, tracking_events >>]_vars

\* A call whose order write was rejected after its package write.
C15_Witness ==
    \E c \in Callers :
        /\ UpdateEnded(c) /\ calls[c].result = "error"
        /\ calls[c].writes = << "updateDoc packages" >>
        /\ calls[c].orderId \in DOMAIN orders
        /\ packages[calls[c].packageId].currentStatus = calls[c].newStatus
        /\ \A i \in 1..Len(orders[calls[c].orderId].packages) :
              orders[calls[c].orderId].packages[i].currentStatus
                  = "PURCHASED_FROM_SELLER"
        /\ tracking_events = << >>

\* C16: the error with which updatePackageStatus is rejected tells which of
\* its writes were made: two rejected calls with the same error have made the
\* same writes, so a call rejected after a write is told apart from one
\* rejected before any.
C16_PartialUpdateDistinguished ==
    \A c1, c2 \in Callers :
        (/\ UpdateEnded(c1) /\ UpdateEnded(c2)
         /\ calls[c1].result # "ok"
         /\ calls[c1].result = calls[c2].result) =>
            calls[c1].writes = calls[c2].writes

(***************************************************************************)
(* Reporting an issue                                                      *)
(***************************************************************************)

\* C17 (checked under SpecPolicy): whatever pipeline status the scanned
\* package has, there is a role to which ISSUE_REPORTED is offered as a next
\* status for it.
C17_IssueReportedOffered ==
    (Rendered /\ scannedStatus # Null /\ Ranked(scannedStatus)) =>
        \E role \in OperationalRoles :
            "ISSUE_REPORTED" \in
                Range(getAvailableNextStatuses(role, scannedStatus))

\* No call made from the scan page asks for ISSUE_REPORTED.
IssueNeverRequestedByScan ==
    \A c \in Callers : calls[c].newStatus # "ISSUE_REPORTED"

(***************************************************************************)
(* Frame of the update transaction                                         *)
(***************************************************************************)

\* What a step of an updatePackageStatus for package p in order o may change:
\* the document of p, and in order o the entry of p and the status.
FrameOfStep(p, o) ==
    /\ DOMAIN packages \subseteq DOMAIN packages'
    /\ DOMAIN packages' \subseteq DOMAIN packages \cup {p}
    /\ \A q \in DOMAIN packages : q # p => packages'[q] = packages[q]
    /\ DOMAIN orders' = DOMAIN orders
    /\ \A x \in DOMAIN orders :
          IF x # o THEN orders'[x] = orders[x]
          ELSE /\ orders'[x].id = orders[x].id
               /\ Len(orders'[x].packages) = Len(orders[x].packages)
               /\ \A i \in 1..Len(orders[x].packages) :
                     /\ orders'[x].packages[i].id = orders[x].packages[i].id
                     /\ orders[x].packages[i].id # p =>
                           orders'[x].packages[i] = orders[x].packages[i]

\* C18 (an action property, checked under SpecSeq): every step of an
\* updatePackageStatus on package p leaves all other package documents and
\* all other orders as they are, and in the parent order keeps the embedded
\* list in its order with every entry other than that of p unchanged.
C18_FrameOfOrderRewrite ==
    [][\A c \in Callers :
          (/\ calls[c].op = "updatePackageStatus"
           /\ calls[c].pc \notin {"idle", "done"}
           /\ calls'[c] # calls[c]) =>
              FrameOfStep(calls[c].packageId, calls[c].orderId)]_vars

\* An update has resolved in an order of two packages whose other package
\* keeps the status and weight an earlier call gave it.
C18_Witness ==
    \E c \in Callers :
        /\ UpdateSucceeded(c)
        /\ calls[c].orderId \in DOMAIN orders
        /\ LET pkgs == orders[calls[c].orderId].packages
           IN  /\ Len(pkgs) = 2
               /\ \E i, j \in 1..2 :
                     /\ pkgs[i].id = calls[c].packageId
                     /\ pkgs[i].currentStatus = "DELIVERED"
                     /\ pkgs[j].id # calls[c].packageId
                     /\ pkgs[j].currentStatus = "RECEIVED_IN_CHINA"
                     /\ pkgs[j].weight = MaxWeight
                     /\ packages[pkgs[j].id] = pkgs[j]

(***************************************************************************)
(* Order of the writes of updatePackageStatus                              *)
(***************************************************************************)

\* The positions of write w in the writes of a call.
PositionsOf(writes, w) == {i \in 1..Len(writes) : writes[i] = w}

\* The writes come in the order package, order, event: the order and the
\* event are written at most once, each after the write of the package's
\* status, and the order is not written after the event.
InWriteOrder(writes) ==
    /\ Cardinality(PositionsOf(writes, "updateDoc orders")) <= 1
    /\ Cardinality(PositionsOf(writes, "addDoc tracking_events")) <= 1
    /\ \A i \in PositionsOf(writes, "updateDoc orders") \cup
                 PositionsOf(writes, "addDoc tracking_events") :
          \E j \in PositionsOf(writes, "updateDoc packages") : j < i
    /\ \A i \in PositionsOf(writes, "updateDoc orders") :
          \A j \in PositionsOf(writes, "addDoc tracking_events") : i < j

\* A step of a call writes to one collection at most, and the write is the
\* one the call records.
OneWritePerStep(c) ==
    /\ packages' # packages =>
          /\ \E w \in {"setDoc packages", "updateDoc packages",
                        "updateDoc packages orderId"} :
                calls'[c].writes = Append(calls[c].writes, w)
          /\ UNCHANGED << orders, tracking_events >>
    /\ orders' # orders =>
          /\ calls'[c].writes = Append(calls[c].writes, "updateDoc orders")
          /\ UNCHANGED << packages, tracking_events >>
    /\ tracking_events' # tracking_events =>
          /\ calls'[c].writes =
                Append(calls[c].writes, "addDoc tracking_events")
          /\ UNCHANGED << packages, orders >>

C20_LastPackageWriteWins ==
    [][\A c \in Callers :
          (/\ calls[c].op = "updatePackageStatus"
           /\ calls[c].pc = "updatePkg"
           /\ calls[c].packageId \in DOMAIN packages
           /\ calls'[c] # calls[c]) =>
              \/ /\ calls'[c].pc = "getOrder"
                 /\ packages'[calls[c].packageId].currentStatus
                       = calls[c].newStatus
              \/ /\ calls'[c].pc = "done" /\ calls'[c].result = "error"
                 /\ packages' = packages]_vars

\* Two calls for one package with different statuses have both resolved; the
\* document holds the status of one of them, the other's is lost.
C20_Witness ==
    \E c1, c2 \in Callers :
        /\ UpdateSucceeded(c1) /\ UpdateSucceeded(c2)
        /\ calls[c1].packageId = calls[c2].packageId
        /\ calls[c1].newStatus # calls[c2].newStatus
        /\ calls[c1].packageId \in DOMAIN packages
        /\ packages[calls[c1].packageId].currentStatus = calls[c1].newStatus
        /\ tracking_events =
              << [packageId |-> calls[c1].packageId,
                  status |-> calls[c1].newStatus],
                 [packageId |-> calls[c2].packageId,
                  status |-> calls[c2].newStatus] >>

(***************************************************************************)
(* Properties of the phase lists and of walks through the policy           *)
(***************************************************************************)

\* seq without the later occurrences of an element it holds more than once.
RECURSIVE Dedup(_)
Dedup(seq) ==
    IF Len(seq) = 0 THEN << >>
    ELSE LET front == Dedup(SubSeq(seq, 1, Len(seq) - 1))
             last == seq[Len(seq)]
         IN  IF last \in Range(front) THEN front ELSE Append(front, last)

\* The status list in declaration order without ISSUE_REPORTED.
RankedStatuses == SelectSeq(PackageStatus, LAMBDA st : st # "ISSUE_REPORTED")

\* The statuses of list are in strictly ascending rank order.
Ascending(list) ==
    \A i, j \in 1..Len(list) :
        i < j => /\ Ranked(list[i]) /\ Ranked(list[j])
                 /\ Rank(list[i]) < Rank(list[j])

\* C21: the three phase lists, concatenated and deduplicated, are the status
\* list in order without ISSUE_REPORTED; each list is in ascending rank order;
\* the lists of China and the UAE share exactly SHIPPED_TO_UAE, those of the
\* UAE and Iran exactly SHIPPED_TO_IRAN, the lists of China and Iran nothing;
\* and the buttons of the administrator, whose list is the concatenation, for
\* a package at the first status are, deduplicated, the rest of the ranked
\* list.
C21_PhaseListInvariant ==
    /\ Dedup(chinaStatuses \o uaeStatuses \o iranStatuses) = RankedStatuses
    /\ Ascending(chinaStatuses) /\ Ascending(uaeStatuses) /\ Ascending(iranStatuses)
    /\ Range(chinaStatuses) \cap Range(uaeStatuses) = {"SHIPPED_TO_UAE"}
    /\ chinaStatuses[Len(chinaStatuses)] = uaeStatuses[1]
    /\ Range(uaeStatuses) \cap Range(iranStatuses) = {"SHIPPED_TO_IRAN"}
    /\ uaeStatuses[Len(uaeStatuses)] = iranStatuses[1]
    /\ Range(chinaStatuses) \cap Range(iranStatuses) = {}
    /\ (Rendered /\ user = "ADMIN" /\ scannedStatus = PackageStatus[1]) =>
          Dedup(<< scannedStatus >> \o buttons) = RankedStatuses

C21_Witness ==
    /\ Rendered /\ user = "ADMIN" /\ scannedStatus = PackageStatus[1]
    /\ Len(buttons) = Len(RankedStatuses) + 1
    /\ Len(Dedup(buttons)) = Len(RankedStatuses) - 1

\* C29: for every role, the administrator included, and every current status
\* the statuses offered hold no status twice.
C29_NoRepeatedStatus ==
    (buttons # Null /\ user \in UserRole) =>
        \A i, j \in 1..Len(buttons) : i # j => buttons[i] # buttons[j]

\* The tracking events written by one of the three agents.
AgentTransitions ==
    {i \in 1..Len(tracking_events) : tracking_events[i].userId \in AgentRoles}

\* No role is offered a status of lower rank than the current status, and an
\* agent only statuses of higher rank.
OfferedNeverEarlier ==
    \A p \in DOMAIN packages : \A role \in UserRole :
        LET cur == packages[p].currentStatus
            offered == getAvailableNextStatuses(role, cur)
        IN  \A k \in 1..Len(offered) :
                /\ Ranked(offered[k])
                /\ Rank(offered[k]) >= Rank(cur)
                /\ role \in AgentRoles => Rank(offered[k]) > Rank(cur)

\* A status update confirmed on the scan page does not lower the rank of the
\* package, and raises it when the user is an agent.
StepForward ==
    \A p \in DOMAIN packages :
        packages'[p] # packages[p] =>
            /\ Rank(packages'[p].currentStatus) >= Rank(packages[p].currentStatus)
            /\ user \in AgentRoles =>
                  Rank(packages'[p].currentStatus) > Rank(packages[p].currentStatus)

\* C27: along the transitions chosen from getAvailableNextStatuses the rank of
\* a package never decreases and increases with every transition of an agent;
\* a package undergoes at most 13 transitions by agents, after which nothing
\* more is offered.
C27_ForwardOnlyProgress ==
    /\ [](/\ OfferedNeverEarlier
          /\ Cardinality(AgentTransitions) <= 13
          /\ Cardinality(AgentTransitions) = 13 =>
                \A role \in UserRole :
                    getAvailableNextStatuses(role, packages[scannedId].currentStatus)
                        = << >>)
    /\ [][StepForward]_vars

C27_Witness ==
    /\ Cardinality(AgentTransitions) = 13
    /\ \A i \in 1..13 : tracking_events[i].status = PackageStatus[i + 1]
    /\ packages[scannedId].currentStatus = "DELIVERED"
    /\ Rendered /\ Len(buttons) = 0

\* C28: DELIVERED is the only ranked status at which no role is offered
\* anything; at every other ranked status some agent is offered a status, so
\* that the agents alone take a package from PURCHASED_FROM_SELLER to
\* DELIVERED, handing over at SHIPPED_TO_UAE and at SHIPPED_TO_IRAN.
C28_NoStuckStatus ==
    \A p \in DOMAIN packages :
        LET cur == packages[p].currentStatus
        IN  /\ Ranked(cur)
            /\ (\A role \in UserRole :
                    Len(getAvailableNextStatuses(role, cur)) = 0)
                  <=> cur = "DELIVERED"
            /\ cur # "DELIVERED" =>
                  \E role \in AgentRoles :
                      Len(getAvailableNextStatuses(role, cur)) > 0

C28_Witness ==
    /\ packages[scannedId].currentStatus = "DELIVERED"
    /\ tracking_events =
          << [packageId |-> scannedId, status |-> "SHIPPED_TO_UAE",
              userId |-> "CHINA_AGENT"],
             [packageId |-> scannedId, status |-> "SHIPPED_TO_IRAN",
              userId |-> "UAE_AGENT"],
             [packageId |-> scannedId, status |-> "DELIVERED",
              userId |-> "IRAN_AGENT"] >>

(***************************************************************************)
(* Properties of the delivered order                                       *)
(***************************************************************************)

\* getCustomersWithOrders: an order counts as delivered if it has packages
\* and every package is DELIVERED.
AllDelivered(pkgs) ==
    Len(pkgs) > 0 /\ \A i \in 1..Len(pkgs) : pkgs[i].currentStatus = "DELIVERED"

EmbeddedStatuses(o, p) ==
    {orders[o].packages[i].currentStatus :
        i \in {j \in 1..Len(orders[o].packages) : orders[o].packages[j].id = p}}

\* C22: when two updatePackageStatus calls for two different packages of one
\* order have interleaved and both have resolved, the embedded list of the
\* order shows both new statuses, each embedded copy equal to the package
\* document, and order.status is the aggregate of the embedded list.
C22_DifferentPackagesBothShown ==
    \A c1, c2 \in Callers :
        (/\ c1 # c2
         /\ UpdateSucceeded(c1) /\ UpdateSucceeded(c2)
         /\ calls[c1].packageId # calls[c2].packageId
         /\ calls[c1].orderId = calls[c2].orderId
         /\ calls[c1].orderId \in DOMAIN orders
         /\ {calls[c1].packageId, calls[c2].packageId} \subseteq DOMAIN packages) =>
            LET o == calls[c1].orderId
            IN  /\ \A c \in {c1, c2} :
                      /\ EmbeddedStatuses(o, calls[c].packageId)
                            = {calls[c].newStatus}
                      /\ packages[calls[c].packageId].currentStatus
                            = calls[c].newStatus
                /\ orders[o].status = Resolve(orders[o].packages)

\* C23: once the updatePackageStatus calls racing on one package have all
\* resolved, the currentStatus of the package document equals that of its
\* embedded copy in the parent order.
C23_SamePackageConverges ==
    \A c1, c2 \in Callers :
        (/\ c1 # c2
         /\ UpdateSucceeded(c1) /\ UpdateSucceeded(c2)
         /\ calls[c1].packageId = calls[c2].packageId
         /\ calls[c1].packageId \in DOMAIN packages
         /\ calls[c1].orderId = calls[c2].orderId
         /\ calls[c1].orderId \in DOMAIN orders) =>
            EmbeddedStatuses(calls[c1].orderId, calls[c1].packageId)
                = {packages[calls[c1].packageId].currentStatus}

\* The positions of the tracking events of package p.
EventsOf(p) ==
    {i \in 1..Len(tracking_events) : tracking_events[i].packageId = p}

\* The tracking event of package p appended last.
LastEvent(p) ==
    tracking_events[CHOOSE i \in EventsOf(p) : \A j \in EventsOf(p) : j <= i]

\* C24: whenever no call is in progress, the status of the last tracking
\* event of every package that has one equals the currentStatus of the
\* package document.
C24_AuditTrailAgrees ==
    Quiescent =>
        \A p \in DOMAIN packages :
            EventsOf(p) # {} => LastEvent(p).status = packages[p].currentStatus

\* The same for states in which every updatePackageStatus call made so far
\* has resolved: the two calls of the two callers have both appended their
\* event.
AuditTrailAgreesAfterSuccess ==
    (/\ Quiescent
     /\ \A c \in Callers : UpdateSucceeded(c)
     /\ Len(tracking_events) = Cardinality(Callers)) =>
        \A p \in DOMAIN packages :
            EventsOf(p) # {} => LastEvent(p).status = packages[p].currentStatus

\* The last call of caller c was an updatePackageInternalTrackingCode that
\* resolved.
TrackingCodeSucceeded(c) ==
    /\ calls[c].op = "updatePackageInternalTrackingCode"
    /\ calls[c].pc = "done" /\ calls[c].result = "ok"

\* C25 (checked under SpecMeta): when an updatePackageStatus and an
\* updatePackageInternalTrackingCode on packages of one order have both
\* resolved, the status written by updatePackageStatus is in place in the
\* package document and in the embedded copy, and order.status is the
\* aggregate of the embedded list: the metadata update has changed no status.
C25_MetadataPreservesStatus ==
    \A c1, c2 \in Callers :
        (/\ UpdateSucceeded(c1) /\ TrackingCodeSucceeded(c2)
         /\ calls[c1].orderId = calls[c2].orderId
         /\ calls[c1].orderId \in DOMAIN orders) =>
            LET o == calls[c1].orderId
                p == calls[c1].packageId
            IN  /\ p \in DOMAIN packages
                /\ packages[p].currentStatus = calls[c1].newStatus
                /\ EmbeddedStatuses(o, p) = {calls[c1].newStatus}
                /\ orders[o].status = Resolve(orders[o].packages)

\* C26: whenever no call is in progress, the orderId of every package document
\* names an existing order; after deleteOrder no document of a package of the
\* deleted order is left.
C26_NoOrphanPackages ==
    Quiescent =>
        \A p \in DOMAIN packages : packages[p].orderId \in DOMAIN orders

\* The same for the package of an updatePackageStatus call that went through
\* the recovery path (it created the package document) and resolved.
NoOrphanAfterRecovery ==
    \A c \in Callers :
        (/\ Quiescent
         /\ UpdateSucceeded(c)
         /\ "setDoc packages" \in Range(calls[c].writes)
         /\ calls[c].packageId \in DOMAIN packages) =>
            packages[calls[c].packageId].orderId \in DOMAIN orders

=============================================================================
